---- MODULE Spec2Model ----
(***************************************************************************)
(* Model of the blob service: the filesystem store (persistence.py), the   *)
(* access-controlled service on top of it (business.py) and the metadata   *)
(* record (models.py).                                                     *)
(*                                                                         *)
(* The storage directory is a pair of partial maps from blob id to file    *)
(* content: `{id}.json` (metadata, JSON text) and `{id}.data` (raw bytes). *)
(* A missing file is an id outside the map's DOMAIN.  Every service method *)
(* is one action: it runs to completion (the synchronous request model),   *)
(* and records the call, its outcome and its return value in `last`.       *)
(***************************************************************************)
EXTENDS Integers, Sequences, FiniteSets, TLC

\* ------------------------------------------------------------------ bounds
\* Identities that call the service and that appear in reader lists.
Users == {"alice", "bob"}
\* Identifiers uuid4 can produce (each is produced at most once).
Ids == {"b1", "b2"}
\* Display names a caller passes (the empty string included).
Names == {"", "n1"}
\* Byte strings a caller uploads (the empty byte string included).
Contents == {"", "hello"}
\* Longest reader list a caller passes to create_blob / set_readable_by.
MaxListLen == 2

\* ------------------------------------------------------- Python data model
\* Optional[T]: None is the empty sequence, a value x is <<x>>.
None == <<>>
Some(x) == <<x>>
IsNone(o) == o = <<>>
Get(o) == o[1]

ToSet(xs) == {xs[i] : i \in DOMAIN xs}
In(x, xs) == \E i \in DOMAIN xs : xs[i] = x

\* list.append(x)
ListAppend(xs, x) == Append(xs, x)

\* list.remove(x): drops the first occurrence of x (x is known to be in xs).
ListRemove(xs, x) ==
  LET k == CHOOSE i \in DOMAIN xs : xs[i] = x /\ \A j \in 1..(i - 1) : xs[j] # x
  IN [i \in 1..(Len(xs) - 1) |-> IF i < k THEN xs[i] ELSE xs[i + 1]]

\* Mutant of ListOfSet: the list is kept as given, repeats included.
ListOfSet_as_given(xs) == {xs}

\* list(set(xs)): the distinct elements of xs, in an order the caller cannot
\* rely on (string hashing is randomized per process): every ordering.
ListOfSet(xs) ==
  LET S == ToSet(xs)
  IN {s \in [1..Cardinality(S) -> S] : \A i, j \in DOMAIN s : i # j => s[i] # s[j]}

\* Caller-supplied reader lists, repeated entries allowed.
ReaderLists == UNION {[1..k -> Users] : k \in 0..MaxListLen}

\* models.BlobMeta
BlobMeta(id, name, owner, readable_by, extra) ==
  [id |-> id, name |-> name, owner |-> owner, readable_by |-> readable_by,
   extra |-> extra]

\* The empty dict `{}` of BlobMeta.extra.
EmptyDict == <<>>

\* json.dump(meta.__dict__, f): the JSON object as its key/value pairs, in
\* the order of the dataclass fields.
JsonDump(meta) ==
  << <<"id", meta.id>>, <<"name", meta.name>>, <<"owner", meta.owner>>,
     <<"readable_by", meta.readable_by>>, <<"extra", meta.extra>> >>

\* json.load(f): the dict of the pairs.
JsonLoad(text) ==
  [k \in {text[i][1] : i \in DOMAIN text} |->
     text[CHOOSE i \in DOMAIN text : text[i][1] = k][2]]

\* Mutant of FromDict: the values are taken by position, name and owner
\* exchanged.
FromDict_swapped(data) ==
  BlobMeta(data["id"], data["owner"], data["name"], data["readable_by"],
           data["extra"])

\* BlobMeta(**data)
FromDict(data) ==
  BlobMeta(data["id"], data["name"], data["owner"], data["readable_by"],
           data["extra"])

\* ------------------------------------------------------------ persistence
\* fs = [json |-> id -> text, data |-> id -> bytes]

\* Mutant of create: only the .json file is written.
create_meta_only(fs, meta, content) ==
  [data |-> fs.data, json |-> (meta.id :> JsonDump(meta)) @@ fs.json]

\* BlobPersistence.create: writes .data, then .json (truncating either).
create(fs, meta, content) ==
  [data |-> (meta.id :> content) @@ fs.data,
   json |-> (meta.id :> JsonDump(meta)) @@ fs.json]

\* BlobPersistence.read_content
read_content(fs, blob_id) ==
  IF blob_id \in DOMAIN fs.data THEN Some(fs.data[blob_id]) ELSE None

\* BlobPersistence.read_meta
read_meta(fs, blob_id) ==
  IF blob_id \in DOMAIN fs.json
    THEN Some(FromDict(JsonLoad(fs.json[blob_id])))
    ELSE None

\* Mutant of update_content: every other .data file is emptied as well.
update_content_empties_others(fs, blob_id, new_content) ==
  IF blob_id \notin DOMAIN fs.data
    THEN [ok |-> FALSE, fs |-> fs]
    ELSE [ok |-> TRUE,
          fs |-> [fs EXCEPT !.data = [i \in DOMAIN fs.data |->
                                        IF i = blob_id THEN new_content ELSE ""]]]

\* Mutant of read_pair: `if not content` in place of `if content is None`.
read_pair_falsy(fs, blob_id) ==
  LET meta == read_meta(fs, blob_id)
      content == read_content(fs, blob_id)
  IN IF IsNone(meta) THEN None
     ELSE IF IsNone(content) \/ Get(content) = "" THEN None
     ELSE Some(<<Get(meta), Get(content)>>)

\* BlobPersistence.read_pair
read_pair(fs, blob_id) ==
  LET meta == read_meta(fs, blob_id)
      content == read_content(fs, blob_id)
  IN IF IsNone(meta) THEN None
     ELSE IF IsNone(content) THEN None
     ELSE Some(<<Get(meta), Get(content)>>)

\* Mutant of update_content: the file is written whether or not it exists.
update_content_creates(fs, blob_id, new_content) ==
  [ok |-> TRUE,
   fs |-> [fs EXCEPT !.data = (blob_id :> new_content) @@ fs.data]]

\* BlobPersistence.update_content: [ok, fs]
update_content(fs, blob_id, new_content) ==
  IF blob_id \notin DOMAIN fs.data
    THEN [ok |-> FALSE, fs |-> fs]
    ELSE [ok |-> TRUE, fs |-> [fs EXCEPT !.data[blob_id] = new_content]]

\* Mutant of update_meta: the stored owner is kept.
update_meta_keeps_owner(fs, meta) ==
  IF meta.id \notin DOMAIN fs.json
    THEN [ok |-> FALSE, fs |-> fs]
    ELSE [ok |-> TRUE,
          fs |-> [fs EXCEPT !.json[meta.id] =
                    JsonDump([meta EXCEPT !.owner =
                                FromDict(JsonLoad(fs.json[meta.id])).owner])]]

\* BlobPersistence.update_meta: [ok, fs]
update_meta(fs, meta) ==
  IF meta.id \notin DOMAIN fs.json
    THEN [ok |-> FALSE, fs |-> fs]
    ELSE [ok |-> TRUE, fs |-> [fs EXCEPT !.json[meta.id] = JsonDump(meta)]]

\* hasattr(meta, k), for the field names callers pass: the dataclass fields
\* are attributes, any other such name is not.
HasAttr(meta, k) == k \in DOMAIN meta

RECURSIVE patch_fields(_, _)
\* BlobPersistence.patch_meta, lines 102-104: the loop over the keyword
\* arguments, each a pair <<name, value>>.
patch_fields(meta, fields) ==
  IF fields = <<>> THEN meta
  ELSE LET k == Head(fields)[1]
           v == Head(fields)[2]
       IN patch_fields(IF HasAttr(meta, k) THEN [meta EXCEPT ![k] = v] ELSE meta,
                       Tail(fields))

\* BlobPersistence.patch_meta: [ok, fs]
patch_meta(fs, blob_id, fields) ==
  LET meta == read_meta(fs, blob_id)
  IN IF IsNone(meta) THEN [ok |-> FALSE, fs |-> fs]
     ELSE update_meta(fs, patch_fields(Get(meta), fields))

\* Mutant of delete: whatever file is there is removed.
delete_lenient(fs, blob_id) ==
  IF blob_id \notin DOMAIN fs.data /\ blob_id \notin DOMAIN fs.json
    THEN [ok |-> FALSE, fs |-> fs]
    ELSE [ok |-> TRUE,
          fs |-> [data |-> [i \in DOMAIN fs.data \ {blob_id} |-> fs.data[i]],
                  json |-> [i \in DOMAIN fs.json \ {blob_id} |-> fs.json[i]]]]

\* Mutant of delete: only the .data file is removed.
delete_data_only(fs, blob_id) ==
  IF blob_id \notin DOMAIN fs.data \/ blob_id \notin DOMAIN fs.json
    THEN [ok |-> FALSE, fs |-> fs]
    ELSE [ok |-> TRUE,
          fs |-> [data |-> [i \in DOMAIN fs.data \ {blob_id} |-> fs.data[i]],
                  json |-> fs.json]]

\* BlobPersistence.delete: [ok, fs]
delete(fs, blob_id) ==
  IF blob_id \notin DOMAIN fs.data \/ blob_id \notin DOMAIN fs.json
    THEN [ok |-> FALSE, fs |-> fs]
    ELSE [ok |-> TRUE,
          fs |-> [data |-> [i \in DOMAIN fs.data \ {blob_id} |-> fs.data[i]],
                  json |-> [i \in DOMAIN fs.json \ {blob_id} |-> fs.json[i]]]]

\* BlobPersistence.list_ids: the ids with a .json file, in directory order
\* (os.listdir gives no order): every ordering.
list_ids(fs) ==
  LET S == DOMAIN fs.json
  IN {s \in [1..Cardinality(S) -> S] : \A i, j \in DOMAIN s : i # j => s[i] # s[j]}

\* BlobPersistence.exists
exists(fs, blob_id) == blob_id \in DOMAIN fs.json /\ blob_id \in DOMAIN fs.data


\* ------------------------------------------------------------------ state
VARIABLES
  storage,   \* the storage directory: [json |-> id -> text, data |-> id -> bytes]
  issued,    \* ids uuid4 has returned so far (it never repeats one)
  last,      \* the call just completed: arguments, outcome, return value
  deleted,   \* history: ids on which a delete_blob has succeeded
  granted,   \* history: <<id, t>> with add_reader of t succeeded on id, and
             \* since then no remove_reader of t, set_readable_by without t
             \* or delete_blob on id
  revoked    \* history: <<id, t>> with remove_reader of t succeeded on id,
             \* and since then no add_reader of t or set_readable_by with t

hist == <<deleted, granted, revoked>>
vars == <<storage, issued, last, deleted, granted, revoked>>

OK == "ok"
BlobNotFound == "BlobNotFound"
Forbidden == "Forbidden"

\* The record of a completed call.  Arguments a method does not take are
\* None; list_out is the caller's list object as the call leaves it.
Call(op, user, id, name, content, list, list_out, target, outcome, ret) ==
  [op |-> op, user |-> user, id |-> id, name |-> name, content |-> content,
   list |-> list, list_out |-> list_out, target |-> target,
   outcome |-> outcome, ret |-> ret]

\* No call is in progress: the previous response has been returned.
Idle == Call("idle", "", "", None, None, None, None, None, "idle", None)

\* ---------------------------------------------------------------- service
\* Mutant of check_access: the ownership test runs before the existence test.
check_access_forbid_first(fs, user, blob_id, read, owner_only) ==
  LET meta == read_meta(fs, blob_id)
  IN IF owner_only /\ (IsNone(meta) \/ user # Get(meta).owner)
       THEN [outcome |-> Forbidden, meta |-> None]
     ELSE IF IsNone(meta)
       THEN [outcome |-> BlobNotFound, meta |-> None]
     ELSE IF read /\ ~In(user, Get(meta).readable_by)
       THEN [outcome |-> Forbidden, meta |-> None]
     ELSE [outcome |-> OK, meta |-> meta]

\* Mutant of check_access: owner-only operations let any reader through.
check_access_reader_may_write(fs, user, blob_id, read, owner_only) ==
  LET meta == read_meta(fs, blob_id)
  IN IF IsNone(meta)
       THEN [outcome |-> BlobNotFound, meta |-> None]
     ELSE IF owner_only /\ ~In(user, Get(meta).readable_by)
       THEN [outcome |-> Forbidden, meta |-> None]
     ELSE IF read /\ ~In(user, Get(meta).readable_by)
       THEN [outcome |-> Forbidden, meta |-> None]
     ELSE [outcome |-> OK, meta |-> meta]

\* BlobService._check_access: [outcome, meta]
check_access(fs, user, blob_id, read, owner_only) ==
  LET meta == read_meta(fs, blob_id)
  IN IF IsNone(meta)
       THEN [outcome |-> BlobNotFound, meta |-> None]
     ELSE IF owner_only /\ user # Get(meta).owner
       THEN [outcome |-> Forbidden, meta |-> None]
     ELSE IF read /\ ~In(user, Get(meta).readable_by)
       THEN [outcome |-> Forbidden, meta |-> None]
     ELSE [outcome |-> OK, meta |-> meta]

\* Mutant of create_readers: the owner is not added.
create_readers_no_owner(user, readable_by) ==
  IF IsNone(readable_by) THEN <<>> ELSE Get(readable_by)

\* BlobService.create_blob, line 46: (readable_by or []) + [user]
create_readers(user, readable_by) ==
  (IF IsNone(readable_by) \/ Get(readable_by) = <<>> THEN <<>> ELSE Get(readable_by))
    \o <<user>>

\* BlobService.create_blob
create_blob(user, name, content, readable_by) ==
  \E blob_id \in Ids \ issued :
  \E readers \in ListOfSet(create_readers(user, readable_by)) :
    LET meta == BlobMeta(blob_id, name, user, readers, EmptyDict)
    IN /\ storage' = create(storage, meta, content)
       /\ issued' = issued \cup {blob_id}
       /\ last' = Call("create_blob", user, blob_id, Some(name), Some(content),
                       readable_by, readable_by, None, OK, Some(blob_id))
       /\ UNCHANGED hist

\* Mutant of update_blob: the metadata is not consulted.
update_blob_skips_meta(user, blob_id, new_content) ==
  LET upd == update_content(storage, blob_id, new_content)
  IN /\ storage' = upd.fs
     /\ last' = Call("update_blob", user, blob_id, None, Some(new_content),
                     None, None, None, IF upd.ok THEN OK ELSE BlobNotFound,
                     None)
     /\ UNCHANGED <<issued, hist>>

\* Mutant of update_blob: the content is written before the owner is checked.
update_blob_write_first(user, blob_id, new_content) ==
  LET meta == read_meta(storage, blob_id)
      upd == update_content(storage, blob_id, new_content)
      outcome == IF IsNone(meta) THEN BlobNotFound
                 ELSE IF ~upd.ok THEN BlobNotFound
                 ELSE IF user # Get(meta).owner THEN Forbidden
                 ELSE OK
  IN /\ storage' = IF IsNone(meta) THEN storage ELSE upd.fs
     /\ last' = Call("update_blob", user, blob_id, None, Some(new_content),
                     None, None, None, outcome, None)
     /\ UNCHANGED <<issued, hist>>

\* BlobService.update_blob
update_blob(user, blob_id, new_content) ==
  LET meta == read_meta(storage, blob_id)
      upd == update_content(storage, blob_id, new_content)
      outcome == IF IsNone(meta) THEN BlobNotFound
                 ELSE IF user # Get(meta).owner THEN Forbidden
                 ELSE IF ~upd.ok THEN BlobNotFound
                 ELSE OK
  IN /\ storage' = IF outcome = OK THEN upd.fs ELSE storage
     /\ last' = Call("update_blob", user, blob_id, None, Some(new_content),
                     None, None, None, outcome, None)
     /\ UNCHANGED <<issued, hist>>

\* Mutant of read_blob_result: `if not data` in place of `if data is None`.
read_blob_result_falsy(fs, user, blob_id) ==
  LET acc == check_access(fs, user, blob_id, TRUE, FALSE)
      data == read_content(fs, blob_id)
  IN IF acc.outcome # OK THEN [outcome |-> acc.outcome, ret |-> None]
     ELSE IF IsNone(data) \/ Get(data) = ""
       THEN [outcome |-> BlobNotFound, ret |-> None]
     ELSE [outcome |-> OK, ret |-> data]

\* BlobService.read_blob, lines 63-67: [outcome, ret]
read_blob_result(fs, user, blob_id) ==
  LET acc == check_access(fs, user, blob_id, TRUE, FALSE)
      data == read_content(fs, blob_id)
  IN IF acc.outcome # OK THEN [outcome |-> acc.outcome, ret |-> None]
     ELSE IF IsNone(data) THEN [outcome |-> BlobNotFound, ret |-> None]
     ELSE [outcome |-> OK, ret |-> data]

\* BlobService.read_blob
read_blob(user, blob_id) ==
  LET r == read_blob_result(storage, user, blob_id)
  IN /\ last' = Call("read_blob", user, blob_id, None, None, None, None, None,
                     r.outcome, r.ret)
     /\ UNCHANGED <<storage, issued, hist>>

\* BlobService.delete_blob
delete_blob(user, blob_id) ==
  LET acc == check_access(storage, user, blob_id, FALSE, TRUE)
      del == delete(storage, blob_id)
      outcome == IF acc.outcome # OK THEN acc.outcome
                 ELSE IF ~del.ok THEN BlobNotFound
                 ELSE OK
  IN /\ storage' = IF outcome = OK THEN del.fs ELSE storage
     /\ last' = Call("delete_blob", user, blob_id, None, None, None, None, None,
                     outcome, None)
     /\ deleted' = IF outcome = OK THEN deleted \cup {blob_id} ELSE deleted
     /\ granted' = IF outcome = OK
                     THEN {g \in granted : g[1] # blob_id} ELSE granted
     /\ UNCHANGED <<issued, revoked>>

\* Mutant of list_entry: only the objects the user owns are listed.
list_entry_owner_only(fs, user, blob_id) ==
  LET meta == read_meta(fs, blob_id)
  IN IF ~IsNone(meta) /\ user = Get(meta).owner
       THEN << [id |-> Get(meta).id, name |-> Get(meta).name,
                owner |-> Get(meta).owner] >>
       ELSE <<>>

\* BlobService.list_blobs, lines 79-82: the entry of one listed id, if any.
list_entry(fs, user, blob_id) ==
  LET meta == read_meta(fs, blob_id)
  IN IF ~IsNone(meta) /\ In(user, Get(meta).readable_by)
       THEN << [id |-> Get(meta).id, name |-> Get(meta).name,
                owner |-> Get(meta).owner] >>
       ELSE <<>>

RECURSIVE list_result(_, _, _)
\* BlobService.list_blobs, lines 76-83: the loop over the listed ids.
list_result(fs, user, ids) ==
  IF ids = <<>> THEN <<>>
  ELSE list_entry(fs, user, Head(ids)) \o list_result(fs, user, Tail(ids))

\* BlobService.list_blobs
list_blobs(user) ==
  \E ids \in list_ids(storage) :
    /\ last' = Call("list_blobs", user, "", None, None, None, None, None, OK,
                    Some(list_result(storage, user, ids)))
    /\ UNCHANGED <<storage, issued, hist>>

\* Mutant of modify_blob: `if new_name is not None` in place of `if new_name`.
modify_blob_not_none(user, blob_id, new_name) ==
  LET acc == check_access(storage, user, blob_id, FALSE, TRUE)
      meta == [Get(acc.meta) EXCEPT !.name = Get(new_name)]
  IN /\ storage' = IF acc.outcome = OK /\ ~IsNone(new_name)
                     THEN update_meta(storage, meta).fs
                     ELSE storage
     /\ last' = Call("modify_blob", user, blob_id, new_name, None, None, None,
                     None, acc.outcome, None)
     /\ UNCHANGED <<issued, hist>>

\* BlobService.modify_blob
modify_blob(user, blob_id, new_name) ==
  LET acc == check_access(storage, user, blob_id, FALSE, TRUE)
      truthy == ~IsNone(new_name) /\ Get(new_name) # ""
      meta == [Get(acc.meta) EXCEPT !.name = Get(new_name)]
  IN /\ storage' = IF acc.outcome = OK /\ truthy
                     THEN update_meta(storage, meta).fs
                     ELSE storage
     /\ last' = Call("modify_blob", user, blob_id, new_name, None, None, None,
                     None, acc.outcome, None)
     /\ UNCHANGED <<issued, hist>>

\* BlobService.replace_blob
replace_blob(user, blob_id, new_content) ==
  LET acc == check_access(storage, user, blob_id, FALSE, TRUE)
      upd == update_content(storage, blob_id, new_content)
      outcome == IF acc.outcome # OK THEN acc.outcome
                 ELSE IF ~upd.ok THEN BlobNotFound
                 ELSE OK
  IN /\ storage' = IF outcome = OK THEN upd.fs ELSE storage
     /\ last' = Call("replace_blob", user, blob_id, None, Some(new_content),
                     None, None, None, outcome, None)
     /\ UNCHANGED <<issued, hist>>

\* Mutant of inject_owner: the list is stored as given.
inject_owner_skipped(user, new_list) == new_list

\* BlobService.set_readable_by, lines 104-105: the caller's list after the
\* owner is appended to it (the list object itself is changed).
inject_owner(user, new_list) ==
  IF ~In(user, new_list) THEN ListAppend(new_list, user) ELSE new_list

\* BlobService.set_readable_by
set_readable_by(user, blob_id, new_list) ==
  LET acc == check_access(storage, user, blob_id, FALSE, TRUE)
  IN IF acc.outcome # OK
       THEN /\ last' = Call("set_readable_by", user, blob_id, None, None,
                            Some(new_list), Some(new_list), None, acc.outcome,
                            None)
            /\ UNCHANGED <<storage, issued, hist>>
       ELSE \E readers \in ListOfSet(inject_owner(user, new_list)) :
              LET meta == [Get(acc.meta) EXCEPT !.readable_by = readers]
              IN /\ storage' = update_meta(storage, meta).fs
                 /\ last' = Call("set_readable_by", user, blob_id, None, None,
                                 Some(new_list),
                                 Some(inject_owner(user, new_list)), None, OK,
                                 None)
                 /\ granted' = {g \in granted :
                                 g[1] = blob_id => In(g[2], new_list)}
                 /\ revoked' = {r \in revoked :
                                 r[1] = blob_id => ~In(r[2], new_list)}
                 /\ UNCHANGED <<issued, deleted>>

\* BlobService.get_meta, line 113: [outcome, ret]
get_meta_result(fs, user, blob_id) ==
  LET acc == check_access(fs, user, blob_id, TRUE, FALSE)
  IN [outcome |-> acc.outcome, ret |-> acc.meta]

\* BlobService.get_meta
get_meta(user, blob_id) ==
  LET r == get_meta_result(storage, user, blob_id)
  IN /\ last' = Call("get_meta", user, blob_id, None, None, None, None, None,
                     r.outcome, r.ret)
     /\ UNCHANGED <<storage, issued, hist>>

\* BlobService.get_readable_by
get_readable_by(user, blob_id) ==
  LET acc == check_access(storage, user, blob_id, TRUE, FALSE)
  IN /\ last' = Call("get_readable_by", user, blob_id, None, None, None, None,
                     None, acc.outcome,
                     IF acc.outcome = OK THEN Some(Get(acc.meta).readable_by)
                                         ELSE None)
     /\ UNCHANGED <<storage, issued, hist>>

\* Mutant of set_name: the new value is stored as the owner.
set_name_sets_owner(user, blob_id, new_name) ==
  LET acc == check_access(storage, user, blob_id, FALSE, TRUE)
      meta == [Get(acc.meta) EXCEPT !.owner = new_name]
  IN /\ storage' = IF acc.outcome = OK THEN update_meta(storage, meta).fs
                                       ELSE storage
     /\ last' = Call("set_name", user, blob_id, Some(new_name), None, None,
                     None, None, acc.outcome, None)
     /\ UNCHANGED <<issued, hist>>

\* BlobService.set_name
set_name(user, blob_id, new_name) ==
  LET acc == check_access(storage, user, blob_id, FALSE, TRUE)
      meta == [Get(acc.meta) EXCEPT !.name = new_name]
  IN /\ storage' = IF acc.outcome = OK THEN update_meta(storage, meta).fs
                                       ELSE storage
     /\ last' = Call("set_name", user, blob_id, Some(new_name), None, None,
                     None, None, acc.outcome, None)
     /\ UNCHANGED <<issued, hist>>

\* Mutant of add_reader_meta: the target is appended without the membership
\* test.
add_reader_meta_always(meta, target_user) ==
  Some([meta EXCEPT !.readable_by = ListAppend(@, target_user)])

\* Mutant of add_reader_meta: the membership test is inverted.
add_reader_meta_inverted(meta, target_user) ==
  IF In(target_user, meta.readable_by)
    THEN Some([meta EXCEPT !.readable_by = ListAppend(@, target_user)])
    ELSE None

\* BlobService.add_reader, lines 129-131: the metadata to write, if any.
add_reader_meta(meta, target_user) ==
  IF ~In(target_user, meta.readable_by)
    THEN Some([meta EXCEPT !.readable_by = ListAppend(@, target_user)])
    ELSE None

\* BlobService.add_reader
add_reader(user, blob_id, target_user) ==
  LET acc == check_access(storage, user, blob_id, FALSE, TRUE)
      upd == add_reader_meta(Get(acc.meta), target_user)
  IN /\ storage' = IF acc.outcome = OK /\ ~IsNone(upd)
                     THEN update_meta(storage, Get(upd)).fs
                     ELSE storage
     /\ last' = Call("add_reader", user, blob_id, None, None, None, None,
                     Some(target_user), acc.outcome, None)
     /\ granted' = IF acc.outcome = OK /\ target_user # user
                     THEN granted \cup {<<blob_id, target_user>>} ELSE granted
     /\ revoked' = IF acc.outcome = OK
                     THEN revoked \ {<<blob_id, target_user>>} ELSE revoked
     /\ UNCHANGED <<issued, deleted>>

\* Mutant of remove_reader_meta: nothing is ever removed.
remove_reader_meta_never(meta, target_user) == None

\* Mutant of remove_reader_meta: the owner is not protected.
remove_reader_meta_any(meta, target_user) ==
  IF In(target_user, meta.readable_by)
    THEN Some([meta EXCEPT !.readable_by = ListRemove(@, target_user)])
    ELSE None

\* BlobService.remove_reader, lines 135-137: the metadata to write, if any.
remove_reader_meta(meta, target_user) ==
  IF In(target_user, meta.readable_by) /\ target_user # meta.owner
    THEN Some([meta EXCEPT !.readable_by = ListRemove(@, target_user)])
    ELSE None

\* BlobService.remove_reader
remove_reader(user, blob_id, target_user) ==
  LET acc == check_access(storage, user, blob_id, FALSE, TRUE)
      upd == remove_reader_meta(Get(acc.meta), target_user)
  IN /\ storage' = IF acc.outcome = OK /\ ~IsNone(upd)
                     THEN update_meta(storage, Get(upd)).fs
                     ELSE storage
     /\ last' = Call("remove_reader", user, blob_id, None, None, None, None,
                     Some(target_user), acc.outcome, None)
     /\ granted' = IF acc.outcome = OK
                     THEN granted \ {<<blob_id, target_user>>} ELSE granted
     /\ revoked' = IF acc.outcome = OK /\ target_user # user
                     THEN revoked \cup {<<blob_id, target_user>>} ELSE revoked
     /\ UNCHANGED <<issued, deleted>>

\* ---------------------------------------------------------- specification
\* BlobPersistence.__init__ on an empty directory; no call made yet.
Init ==
  /\ storage = [json |-> <<>>, data |-> <<>>]
  /\ issued = {}
  /\ last = Idle
  /\ deleted = {}
  /\ granted = {}
  /\ revoked = {}

\* The completed call's result is handed back to the caller; the service is
\* free for the next call (calls are made one at a time).
respond ==
  /\ last # Idle
  /\ last' = Idle
  /\ UNCHANGED <<storage, issued, hist>>

\* No call is in progress: calls are made one at a time.
Free == last = Idle

Next ==
  \/ \E user \in Users, name \in Names, content \in Contents,
        readable_by \in {None} \cup {Some(l) : l \in ReaderLists} :
       Free /\ create_blob(user, name, content, readable_by)
  \/ \E user \in Users, blob_id \in Ids, new_content \in Contents :
       Free /\ update_blob(user, blob_id, new_content)
  \/ \E user \in Users, blob_id \in Ids : Free /\ read_blob(user, blob_id)
  \/ \E user \in Users, blob_id \in Ids : Free /\ delete_blob(user, blob_id)
  \/ \E user \in Users : Free /\ list_blobs(user)
  \/ \E user \in Users, blob_id \in Ids,
        new_name \in {None} \cup {Some(n) : n \in Names} :
       Free /\ modify_blob(user, blob_id, new_name)
  \/ \E user \in Users, blob_id \in Ids, new_content \in Contents :
       Free /\ replace_blob(user, blob_id, new_content)
  \/ \E user \in Users, blob_id \in Ids, new_list \in ReaderLists :
       Free /\ set_readable_by(user, blob_id, new_list)
  \/ \E user \in Users, blob_id \in Ids : Free /\ get_meta(user, blob_id)
  \/ \E user \in Users, blob_id \in Ids : Free /\ get_readable_by(user, blob_id)
  \/ \E user \in Users, blob_id \in Ids, new_name \in Names :
       Free /\ set_name(user, blob_id, new_name)
  \/ \E user \in Users, blob_id \in Ids, target_user \in Users :
       Free /\ add_reader(user, blob_id, target_user)
  \/ \E user \in Users, blob_id \in Ids, target_user \in Users :
       Free /\ remove_reader(user, blob_id, target_user)
  \/ respond

Spec == Init /\ [][Next]_vars

\* ================================================================= claims
\* Observations of the stored state used by the properties below.
MetaOf(fs, blob_id) == Get(read_meta(fs, blob_id))
ReadersOf(fs, blob_id) == ToSet(MetaOf(fs, blob_id).readable_by)

\* The service methods that take a blob id.
OwnerOps == {"update_blob", "replace_blob", "set_name", "modify_blob",
             "set_readable_by", "add_reader", "remove_reader", "delete_blob"}
ReadOps == {"read_blob", "get_meta", "get_readable_by"}
IdOps == OwnerOps \cup ReadOps

\* C1: in every reachable state, every stored object's owner is a member of
\* its readable_by list.
C1_OwnerIsReader ==
  \A blob_id \in DOMAIN storage.json :
    In(MetaOf(storage, blob_id).owner, MetaOf(storage, blob_id).readable_by)

\* C1 witness: the owner asked to be removed from an object's readers, the
\* call succeeded and the object is still stored.
C1_Witness ==
  /\ last.op = "remove_reader" /\ last.outcome = OK
  /\ last.target = Some(last.user)
  /\ last.id \in DOMAIN storage.json
  /\ Cardinality(ReadersOf(storage, last.id)) = 2

\* C2: a call of an id-taking method on an id with no stored metadata ends
\* in BlobNotFound, whoever the acting user is (never in Forbidden).
C2_NotFoundFirst ==
  [][(last'.op \in IdOps /\ last'.id \notin DOMAIN storage.json)
       => last'.outcome = BlobNotFound]_vars

\* C2 witness: an owner-only method was called on a deleted object and the
\* outcome is BlobNotFound.
C2_Witness ==
  /\ last.op = "set_readable_by" /\ last.id \in deleted
  /\ last.outcome = BlobNotFound

\* C3: on an existing object every owner-only method ends in Forbidden
\* exactly when the acting user is not the owner.
C3_OwnerOnly ==
  [][(last'.op \in OwnerOps /\ last'.id \in DOMAIN storage.json)
       => (last'.outcome = Forbidden
             <=> last'.user # MetaOf(storage, last'.id).owner)]_vars

\* C3 witness: a user who is a reader but not the owner called update_blob
\* and got Forbidden.
C3_Witness ==
  /\ last.op = "update_blob" /\ last.outcome = Forbidden
  /\ last.id \in DOMAIN storage.json
  /\ last.user \in ReadersOf(storage, last.id)

\* C4: on an existing complete object read_blob, get_meta and
\* get_readable_by succeed exactly when the acting user is in readable_by and
\* end in Forbidden otherwise; read_blob returns the stored content, get_meta
\* the stored metadata, get_readable_by the stored list.
C4_ReadAccess ==
  (last.op \in ReadOps /\ exists(storage, last.id)) =>
    IF last.user \in ReadersOf(storage, last.id)
      THEN /\ last.outcome = OK
           /\ last.op = "read_blob" => last.ret = Some(storage.data[last.id])
           /\ last.op = "get_meta" =>
                JsonDump(Get(last.ret)) = storage.json[last.id]
           /\ last.op = "get_readable_by" =>
                last.ret = Some(MetaOf(storage, last.id).readable_by)
      ELSE last.outcome = Forbidden /\ last.ret = None

\* C4 witness: a reader who is not the owner read an object whose content is
\* the empty byte string.
C4_Witness ==
  /\ last.op = "read_blob" /\ last.outcome = OK /\ last.ret = Some("")
  /\ last.user # MetaOf(storage, last.id).owner

\* C5: a call that ends in BlobNotFound or Forbidden leaves every file of the
\* storage directory as it was.
C5_FailureNoChange ==
  [][last'.outcome \in {BlobNotFound, Forbidden} => storage' = storage]_vars

\* C5 witness: update_blob by a user who is not the owner ended in Forbidden.
C5_Witness ==
  /\ last.op = "update_blob" /\ last.outcome = Forbidden
  /\ last.id \in DOMAIN storage.json
  /\ last.content # Some(storage.data[last.id])

\* What a read by user t of blob_id would end in, in storage state fs.
CanRead(fs, t, blob_id) == read_blob_result(fs, t, blob_id).outcome = OK
Denied(fs, t, blob_id) ==
  /\ read_blob_result(fs, t, blob_id).outcome = Forbidden
  /\ get_meta_result(fs, t, blob_id).outcome = Forbidden
Gone(fs, t, blob_id) ==
  /\ read_blob_result(fs, t, blob_id).outcome = BlobNotFound
  /\ get_meta_result(fs, t, blob_id).outcome = BlobNotFound

\* C6 (amended): grant and revoke take effect in order.  After add_reader of
\* t (not the owner) succeeds, a read by t returns the stored content until
\* remove_reader of t, set_readable_by without t or delete_blob.  After
\* remove_reader of t succeeds, read_blob and get_meta by t end in Forbidden
\* until t is added again (add_reader of t, set_readable_by with t) or the
\* object is deleted; once it is deleted they end in BlobNotFound.
C6_GrantRevoke ==
  /\ \A g \in granted :
       read_blob_result(storage, g[2], g[1])
         = [outcome |-> OK, ret |-> Some(storage.data[g[1]])]
  /\ \A r \in revoked :
       IF r[1] \in deleted THEN Gone(storage, r[2], r[1])
                           ELSE Denied(storage, r[2], r[1])

\* C6 as stated: as above, but after remove_reader of t succeeds read_blob
\* and get_meta by t end in Forbidden until t is added again, whatever else
\* happens.
C6_Original ==
  /\ \A g \in granted :
       read_blob_result(storage, g[2], g[1])
         = [outcome |-> OK, ret |-> Some(storage.data[g[1]])]
  /\ \A r \in revoked : Denied(storage, r[2], r[1])

\* C6 witness: a user whose access was granted by add_reader and then taken
\* by remove_reader is denied on one object, while a user granted access by
\* add_reader reads the other.
C6_Witness ==
  /\ last.op = "remove_reader" /\ last.outcome = OK
  /\ <<last.id, Get(last.target)>> \in revoked
  /\ Denied(storage, Get(last.target), last.id)
  /\ \E g \in granted : g[1] # last.id /\ CanRead(storage, g[2], g[1])

\* C7: once delete_blob has succeeded on an id, every later id-taking call
\* on it, by any user, ends in BlobNotFound and changes nothing, the id stays
\* deleted, and no list_blobs result contains it.
C7_DeletedStaysGone ==
  [][/\ (last'.op \in IdOps /\ last'.id \in deleted) =>
          (last'.outcome = BlobNotFound /\ storage' = storage)
     /\ last'.op = "list_blobs" =>
          \A i \in DOMAIN Get(last'.ret) : Get(last'.ret)[i].id \notin deleted'
     /\ deleted \subseteq deleted'
     /\ \A blob_id \in deleted' : ~exists(storage', blob_id)]_vars

\* C7 witness: a second delete_blob on a deleted id ended in BlobNotFound.
C7_Witness ==
  /\ last.op = "delete_blob" /\ last.id \in deleted
  /\ last.outcome = BlobNotFound

\* C8: in the state create_blob(o, n, c, readers) leaves, read_blob by o of
\* the returned id returns exactly c, and get_meta by o returns metadata
\* with that id, name n and owner o.
C8_CreateRoundTrip ==
  last.op = "create_blob" =>
    /\ read_blob_result(storage, last.user, Get(last.ret))
         = [outcome |-> OK, ret |-> last.content]
    /\ LET g == get_meta_result(storage, last.user, Get(last.ret))
       IN /\ g.outcome = OK
          /\ Get(g.ret).id = Get(last.ret)
          /\ Get(g.ret).name = Get(last.name)
          /\ Get(g.ret).owner = last.user

\* C8 witness: create_blob has just stored an object with empty content
\* while another object is stored.
C8_Witness ==
  /\ last.op = "create_blob" /\ last.content = Some("")
  /\ last.name = Some("n1")
  /\ Cardinality(DOMAIN storage.json) = 2

\* C9: in the state create_blob leaves, the stored reader set of the new
\* object is the union of the given list (none when absent) and the owner.
C9_CreateReaders ==
  last.op = "create_blob" =>
    ReadersOf(storage, last.id)
      = (IF IsNone(last.list) THEN {} ELSE ToSet(Get(last.list)))
          \cup {last.user}

\* C9 witness: create_blob was given a list that repeats another user and
\* leaves the owner out.
C9_Witness ==
  /\ last.op = "create_blob" /\ last.user = "alice"
  /\ last.list = Some(<<"bob", "bob">>)

\* C10: a successful set_readable_by stores as reader set the union of the
\* given list and the owner, whatever the set was before, and every earlier
\* reader outside that union is Forbidden to read afterwards.
C10_SetReadableBy ==
  [][(last'.op = "set_readable_by" /\ last'.outcome = OK) =>
       LET blob_id == last'.id
           new == ToSet(Get(last'.list)) \cup {MetaOf(storage, blob_id).owner}
       IN /\ ReadersOf(storage', blob_id) = new
          /\ \A t \in ReadersOf(storage, blob_id) \ new :
               Denied(storage', t, blob_id)]_vars

\* C10 witness: set_readable_by succeeded with a list that leaves the owner
\* out, and the owner is the only reader left.
C10_Witness ==
  /\ last.op = "set_readable_by" /\ last.outcome = OK
  /\ ~In(last.user, Get(last.list))
  /\ ReadersOf(storage, last.id) = {last.user}

\* What add_reader(user, blob_id, target_user) would end in and leave, in
\* storage state fs.
add_reader_result(fs, user, blob_id, target_user) ==
  LET acc == check_access(fs, user, blob_id, FALSE, TRUE)
      upd == add_reader_meta(Get(acc.meta), target_user)
  IN [outcome |-> acc.outcome,
      fs |-> IF acc.outcome = OK /\ ~IsNone(upd)
               THEN update_meta(fs, Get(upd)).fs ELSE fs]

\* The metadata without its reader list.
RestOf(meta) == [meta EXCEPT !.readable_by = <<>>]

\* C11: add_reader is idempotent.  After add_reader by the owner has
\* succeeded, the same call again succeeds and leaves the store as the first
\* call left it; the first call leaves the reader set grown by the target and
\* the rest of the metadata as it was, and changes nothing when the target
\* was a reader already.  The owner's call on an existing object succeeds.
C11_AddReaderIdempotent ==
  [][last'.op = "add_reader" =>
       LET blob_id == last'.id
           t == Get(last'.target)
           again == add_reader_result(storage', last'.user, blob_id, t)
       IN /\ (/\ blob_id \in DOMAIN storage.json
              /\ last'.user = MetaOf(storage, blob_id).owner)
               => last'.outcome = OK
          /\ last'.outcome = OK =>
               /\ again.outcome = OK
               /\ again.fs = storage'
               /\ ReadersOf(storage', blob_id)
                    = ReadersOf(storage, blob_id) \cup {t}
               /\ RestOf(MetaOf(storage', blob_id))
                    = RestOf(MetaOf(storage, blob_id))
               /\ t \in ReadersOf(storage, blob_id) => storage' = storage]_vars

\* C11 witness: add_reader by the owner succeeded for a target that is not
\* the owner and is a reader now, while a second object is stored.
C11_Witness ==
  /\ last.op = "add_reader" /\ last.outcome = OK
  /\ Get(last.target) # last.user
  /\ Get(last.target) \in ReadersOf(storage, last.id)
  /\ Cardinality(DOMAIN storage.json) = 2

\* C12: remove_reader by the owner on an existing object succeeds.  When the
\* target is the owner or is not a reader, the store is left unchanged; when
\* the target is another reader, exactly that reader leaves the reader set
\* and the rest of the metadata, the content and every other object stay.
C12_RemoveReader ==
  [][last'.op = "remove_reader" =>
       LET blob_id == last'.id
           t == Get(last'.target)
           before == MetaOf(storage, blob_id)
       IN /\ (blob_id \in DOMAIN storage.json /\ last'.user = before.owner)
               => last'.outcome = OK
          /\ last'.outcome = OK =>
               IF t = before.owner \/ ~In(t, before.readable_by)
                 THEN storage' = storage
                 ELSE /\ ReadersOf(storage', blob_id)
                           = ReadersOf(storage, blob_id) \ {t}
                      /\ RestOf(MetaOf(storage', blob_id)) = RestOf(before)
                      /\ storage'.data = storage.data
                      /\ DOMAIN storage'.json = DOMAIN storage.json
                      /\ \A other \in DOMAIN storage.json \ {blob_id} :
                           storage'.json[other] = storage.json[other]]_vars

\* C12 witness: remove_reader by the owner succeeded with the owner as
\* target, and the object still has another reader.
C12_Witness ==
  /\ last.op = "remove_reader" /\ last.outcome = OK
  /\ Get(last.target) = last.user
  /\ ReadersOf(storage, last.id) = Users

\* C13: with calls made one at a time from an empty store, every id has
\* both its .json and its .data file or neither, after every call.
C13_BothOrNeither ==
  \A blob_id \in Ids :
    blob_id \in DOMAIN storage.json <=> blob_id \in DOMAIN storage.data

\* C13 witness: delete_blob has just removed both files of one object and
\* the other object is still stored with both files.
C13_Witness ==
  /\ last.op = "delete_blob" /\ last.outcome = OK
  /\ \E blob_id \in Ids \ {last.id} : exists(storage, blob_id)
  /\ ~exists(storage, last.id)

\* The entries list_blobs must return to user in storage state fs.
Readable(fs, user) ==
  {blob_id \in DOMAIN fs.json : user \in ReadersOf(fs, blob_id)}
EntryOf(fs, blob_id) ==
  [id |-> blob_id, name |-> MetaOf(fs, blob_id).name,
   owner |-> MetaOf(fs, blob_id).owner]

\* C15: list_blobs never fails and returns exactly one entry {id, name,
\* owner} for every stored object whose reader list contains the user, with
\* the stored name and owner, and no other entry.
C15_ListBlobs ==
  last.op = "list_blobs" =>
    /\ last.outcome = OK
    /\ LET ret == Get(last.ret)
       IN /\ ToSet(ret)
               = {EntryOf(storage, blob_id) : blob_id \in Readable(storage, last.user)}
          /\ Len(ret) = Cardinality(Readable(storage, last.user))

\* C15 witness: list_blobs returned to a user one object the user reads but
\* does not own, while the other stored object is not readable to the user.
C15_Witness ==
  /\ last.op = "list_blobs"
  /\ Cardinality(DOMAIN storage.json) = 2
  /\ Len(Get(last.ret)) = 1
  /\ Get(last.ret)[1].owner # last.user

\* ==================================================== the store on its own
\* BlobPersistence called directly, on a directory that may hold files
\* already: __init__ takes any existing directory (makedirs, exist_ok=True).

\* A non-empty `extra` dict, as its key/value pairs.
SomeDict == << <<"k", "v">> >>
\* Reader lists of the metadata handed to the store.
StoreLists == {<<>>, <<"bob">>}
\* Metadata objects handed to create and update_meta.
StoreMetas ==
  {BlobMeta(id, name, owner, readable_by, EmptyDict) :
     id \in Ids, name \in Names, owner \in Users, readable_by \in StoreLists}

\* Keyword arguments handed to patch_meta: one field, a name that is no
\* field, none, or two of them.
PatchFields ==
  {<< <<"name", n>> >> : n \in Names}
    \cup {<< <<"owner", u>> >> : u \in Users}
    \cup {<< <<"id", i>> >> : i \in Ids}
    \cup {<< <<"readable_by", l>> >> : l \in StoreLists}
    \cup {<< <<"extra", d>> >> : d \in {EmptyDict, SomeDict}}
    \cup {<<>>, << <<"color", "red">> >>,
          << <<"color", "red">>, <<"name", "n1">> >>,
          << <<"name", "n1">>, <<"owner", "bob">> >>}

\* The files a directory may hold for one id when the store is opened.
JsonFiles(blob_id) ==
  {None} \cup {Some(JsonDump(m)) : m \in {x \in StoreMetas : x.id = blob_id}}
DataFiles == {None} \cup {Some(c) : c \in Contents}

\* The directory holding, for each id, the files the two maps give.
Directory(jf, df) ==
  [json |-> [i \in {x \in Ids : ~IsNone(jf[x])} |-> Get(jf[i])],
   data |-> [i \in {x \in Ids : ~IsNone(df[x])} |-> Get(df[i])]]

\* The record of a completed store call.
StoreCall(op, id, meta, content, fields, ret) ==
  [op |-> op, id |-> id, meta |-> meta, content |-> content,
   fields |-> fields, ret |-> ret]

StoreIdle == StoreCall("idle", "", None, None, None, None)

\* BlobPersistence.__init__ on a directory with any files in it.
StoreInit ==
  /\ \E jf \in {f \in [Ids -> UNION {JsonFiles(i) : i \in Ids}] :
                  \A i \in Ids : f[i] \in JsonFiles(i)},
        df \in [Ids -> DataFiles] :
       storage = Directory(jf, df)
  /\ issued = {}
  /\ last = StoreIdle
  /\ deleted = {}
  /\ granted = {}
  /\ revoked = {}

StoreFree == last.op = "idle"

p_create(meta, content) ==
  /\ storage' = create(storage, meta, content)
  /\ last' = StoreCall("create", meta.id, Some(meta), Some(content), None, None)
  /\ UNCHANGED <<issued, hist>>

p_read_content(blob_id) ==
  /\ last' = StoreCall("read_content", blob_id, None, None, None,
                       read_content(storage, blob_id))
  /\ UNCHANGED <<storage, issued, hist>>

p_read_meta(blob_id) ==
  /\ last' = StoreCall("read_meta", blob_id, None, None, None,
                       read_meta(storage, blob_id))
  /\ UNCHANGED <<storage, issued, hist>>

p_read_pair(blob_id) ==
  /\ last' = StoreCall("read_pair", blob_id, None, None, None,
                       read_pair(storage, blob_id))
  /\ UNCHANGED <<storage, issued, hist>>

p_update_content(blob_id, new_content) ==
  LET r == update_content(storage, blob_id, new_content)
  IN /\ storage' = r.fs
     /\ last' = StoreCall("update_content", blob_id, None, Some(new_content),
                          None, r.ok)
     /\ UNCHANGED <<issued, hist>>

p_update_meta(meta) ==
  LET r == update_meta(storage, meta)
  IN /\ storage' = r.fs
     /\ last' = StoreCall("update_meta", meta.id, Some(meta), None, None, r.ok)
     /\ UNCHANGED <<issued, hist>>

p_patch_meta(blob_id, fields) ==
  LET r == patch_meta(storage, blob_id, fields)
  IN /\ storage' = r.fs
     /\ last' = StoreCall("patch_meta", blob_id, None, None, Some(fields), r.ok)
     /\ UNCHANGED <<issued, hist>>

p_delete(blob_id) ==
  LET r == delete(storage, blob_id)
  IN /\ storage' = r.fs
     /\ last' = StoreCall("delete", blob_id, None, None, None, r.ok)
     /\ UNCHANGED <<issued, hist>>

p_list_ids ==
  \E ids \in list_ids(storage) :
    /\ last' = StoreCall("list_ids", "", None, None, None, ids)
    /\ UNCHANGED <<storage, issued, hist>>

p_exists(blob_id) ==
  /\ last' = StoreCall("exists", blob_id, None, None, None,
                       exists(storage, blob_id))
  /\ UNCHANGED <<storage, issued, hist>>

\* The completed store call returns to its caller.
store_respond ==
  /\ last.op # "idle"
  /\ last' = StoreIdle
  /\ UNCHANGED <<storage, issued, hist>>

StoreNext ==
  \/ \E meta \in StoreMetas, content \in Contents :
       StoreFree /\ p_create(meta, content)
  \/ \E blob_id \in Ids : StoreFree /\ p_read_content(blob_id)
  \/ \E blob_id \in Ids : StoreFree /\ p_read_meta(blob_id)
  \/ \E blob_id \in Ids : StoreFree /\ p_read_pair(blob_id)
  \/ \E blob_id \in Ids, new_content \in Contents :
       StoreFree /\ p_update_content(blob_id, new_content)
  \/ \E meta \in StoreMetas : StoreFree /\ p_update_meta(meta)
  \/ \E blob_id \in Ids, fields \in PatchFields :
       StoreFree /\ p_patch_meta(blob_id, fields)
  \/ \E blob_id \in Ids : StoreFree /\ p_delete(blob_id)
  \/ StoreFree /\ p_list_ids
  \/ \E blob_id \in Ids : StoreFree /\ p_exists(blob_id)
  \/ store_respond

StoreSpec == StoreInit /\ [][StoreNext]_vars

\* -------------------------------------------------- claims about the store
HasJson(fs, blob_id) == blob_id \in DOMAIN fs.json
HasData(fs, blob_id) == blob_id \in DOMAIN fs.data

\* C16: delete returns True and removes both files when both are there;
\* when either is missing it returns False and removes nothing.  After a
\* successful delete a second delete returns False and read_content,
\* read_meta and read_pair return None.
C16_Delete ==
  [][last'.op = "delete" =>
       LET blob_id == last'.id
       IN IF HasJson(storage, blob_id) /\ HasData(storage, blob_id)
            THEN /\ last'.ret = TRUE
                 /\ ~HasJson(storage', blob_id) /\ ~HasData(storage', blob_id)
                 /\ delete(storage', blob_id).ok = FALSE
                 /\ IsNone(read_content(storage', blob_id))
                 /\ IsNone(read_meta(storage', blob_id))
                 /\ IsNone(read_pair(storage', blob_id))
            ELSE /\ last'.ret = FALSE
                 /\ storage' = storage]_vars

\* C16 witness: delete returned False on an id that has its .json file but
\* no .data file, and the .json file is still there.
C16_Witness ==
  /\ last.op = "delete" /\ last.ret = FALSE
  /\ HasJson(storage, last.id) /\ ~HasData(storage, last.id)

\* C17: update_content on an id without .data file, and update_meta and
\* patch_meta on an id without .json file, return False and change nothing;
\* the reads of a missing file return None; no call but create adds a file.
C17_UpdatesNeverCreate ==
  [][/\ (last'.op = "update_content" /\ ~HasData(storage, last'.id)) =>
          (last'.ret = FALSE /\ storage' = storage)
     /\ (last'.op \in {"update_meta", "patch_meta"}
           /\ ~HasJson(storage, last'.id)) =>
          (last'.ret = FALSE /\ storage' = storage)
     /\ (last'.op = "read_content" /\ ~HasData(storage, last'.id)) =>
          IsNone(last'.ret)
     /\ (last'.op = "read_meta" /\ ~HasJson(storage, last'.id)) =>
          IsNone(last'.ret)
     /\ (last'.op = "read_pair"
           /\ (~HasJson(storage, last'.id) \/ ~HasData(storage, last'.id))) =>
          IsNone(last'.ret)
     /\ last'.op # "create" =>
          /\ DOMAIN storage'.json \subseteq DOMAIN storage.json
          /\ DOMAIN storage'.data \subseteq DOMAIN storage.data]_vars

\* C17 witness: update_content returned False on an id that has metadata
\* but no content, and no content file has appeared.
C17_Witness ==
  /\ last.op = "update_content" /\ last.ret = FALSE
  /\ HasJson(storage, last.id) /\ ~HasData(storage, last.id)

\* C18: exists is true exactly when both files are there; read_pair returns
\* (metadata, content) exactly then and None otherwise; list_ids returns
\* exactly the ids that have a .json file.
C18_ExistsPairList ==
  /\ last.op = "exists" =>
       (last.ret <=> (HasJson(storage, last.id) /\ HasData(storage, last.id)))
  /\ last.op = "read_pair" =>
       last.ret = IF HasJson(storage, last.id) /\ HasData(storage, last.id)
                    THEN Some(<<MetaOf(storage, last.id), storage.data[last.id]>>)
                    ELSE None
  /\ last.op = "list_ids" =>
       /\ ToSet(last.ret) = DOMAIN storage.json
       /\ Len(last.ret) = Cardinality(DOMAIN storage.json)

\* C18 witness: read_pair returned the pair of an object whose content is
\* empty, while the other id has a .data file only.
C18_Witness ==
  /\ last.op = "read_pair" /\ ~IsNone(last.ret)
  /\ storage.data[last.id] = ""
  /\ \E other \in Ids : HasData(storage, other) /\ ~HasJson(storage, other)

\* C19: read-after-write.  After create(meta, content) read_content returns
\* content and read_meta returns meta; after a successful update_content
\* read_content returns the new content and no metadata has changed; after
\* a successful update_meta read_meta returns the metadata passed and no
\* content has changed.
C19_ReadAfterWrite ==
  [][/\ last'.op = "create" =>
          /\ read_content(storage', last'.id) = last'.content
          /\ read_meta(storage', last'.id) = last'.meta
     /\ (last'.op = "update_content" /\ last'.ret = TRUE) =>
          /\ read_content(storage', last'.id) = last'.content
          /\ storage'.json = storage.json
     /\ (last'.op = "update_meta" /\ last'.ret = TRUE) =>
          /\ read_meta(storage', last'.id) = last'.meta
          /\ storage'.data = storage.data]_vars

\* C19 witness: update_meta returned True with metadata that names a reader
\* list, on an object that has content.
C19_Witness ==
  /\ last.op = "update_meta" /\ last.ret = TRUE
  /\ Get(last.meta).readable_by = <<"bob">>
  /\ HasData(storage, last.id) /\ storage.data[last.id] = "hello"

\* The field names a patch_meta call passes.
Named(fields) == {fields[i][1] : i \in DOMAIN fields}

\* C20: patch_meta on an id that has metadata changes only the named fields
\* of the metadata of that id: the fields not named keep their values, names
\* that are no field are ignored, no content changes, and the metadata of
\* every other id stays as it was, whatever the names (id and owner too).
C20_PatchOnlyNamed ==
  [][(last'.op = "patch_meta" /\ HasJson(storage, last'.id)) =>
       LET blob_id == last'.id
           before == MetaOf(storage, blob_id)
           after == MetaOf(storage', blob_id)
       IN /\ HasJson(storage', blob_id)
          /\ \A k \in DOMAIN before \ Named(Get(last'.fields)) :
               after[k] = before[k]
          /\ storage'.data = storage.data
          /\ DOMAIN storage'.json = DOMAIN storage.json
          /\ \A other \in DOMAIN storage.json \ {blob_id} :
               storage'.json[other] = storage.json[other]]_vars

\* ========================================= the service on any directory
\* BlobService on a store opened on a directory that may hold files already,
\* the two files of an id or only one of them.

\* Metadata as the service writes it for blob_id: the owner among the
\* readers, no reader twice.
ServiceMetas(blob_id) ==
  UNION {{BlobMeta(blob_id, name, owner, readable_by, EmptyDict) :
            name \in Names,
            readable_by \in UNION {ListOfSet(<<owner>> \o l) : l \in ReaderLists}} :
         owner \in Users}

ServiceJsonFiles(blob_id) ==
  {None} \cup {Some(JsonDump(m)) : m \in ServiceMetas(blob_id)}

\* BlobPersistence.__init__ on a directory with any such files in it; the
\* ids in use there are not produced by uuid4 again.
AnyDirInit ==
  /\ \E jf \in {f \in [Ids -> UNION {ServiceJsonFiles(i) : i \in Ids}] :
                  \A i \in Ids : f[i] \in ServiceJsonFiles(i)},
        df \in [Ids -> DataFiles] :
       /\ storage = Directory(jf, df)
       /\ issued = {i \in Ids : ~IsNone(jf[i]) \/ ~IsNone(df[i])}
  /\ last = Idle
  /\ deleted = {}
  /\ granted = {}
  /\ revoked = {}

AnyDirSpec == AnyDirInit /\ [][Next]_vars

\* The id has exactly one of its two files.
Half(fs, blob_id) == HasJson(fs, blob_id) # HasData(fs, blob_id)

\* The methods C14 names.
HalfOps == {"get_meta", "get_readable_by", "read_blob", "set_name",
            "add_reader", "remove_reader", "set_readable_by", "update_blob",
            "delete_blob"}

\* C14: on an id that has exactly one of its two files, every service call
\* of HalfOps, by any user, ends in BlobNotFound and changes nothing, and
\* list_blobs lists no such id.
C14_HalfIsAbsent ==
  [][/\ (last'.op \in HalfOps /\ Half(storage, last'.id)) =>
          (last'.outcome = BlobNotFound /\ storage' = storage)
     /\ last'.op = "list_blobs" =>
          \A i \in DOMAIN Get(last'.ret) :
            ~Half(storage, Get(last'.ret)[i].id)]_vars

\* ------------------------------------------ more claims about the service
\* The ids stored before and after a step.
Kept == DOMAIN storage.json \cap DOMAIN storage'.json

\* C23: owner and id are immutable.  No step changes the stored owner or the
\* stored id of an object that is there before and after it, the stored id
\* is the key it is stored under, and create_blob stores the calling user as
\* owner under an id that was never in use.
C23_OwnerIdImmutable ==
  [][/\ \A blob_id \in Kept :
          /\ MetaOf(storage', blob_id).owner = MetaOf(storage, blob_id).owner
          /\ MetaOf(storage', blob_id).id = blob_id
     /\ last'.op = "create_blob" =>
          LET blob_id == Get(last'.ret)
          IN /\ blob_id \notin DOMAIN storage.json
             /\ blob_id \notin deleted
             /\ MetaOf(storage', blob_id).owner = last'.user
             /\ MetaOf(storage', blob_id).id = blob_id]_vars

\* C23 witness: set_name has succeeded on an object while the two stored
\* objects have different owners.
C23_Witness ==
  /\ last.op = "set_name" /\ last.outcome = OK
  /\ Cardinality(DOMAIN storage.json) = 2
  /\ \E other \in DOMAIN storage.json :
       MetaOf(storage, other).owner # MetaOf(storage, last.id).owner

\* C24: every stored object's name is non-empty text.
C24_NameNonEmpty ==
  \A blob_id \in DOMAIN storage.json : MetaOf(storage, blob_id).name # ""

\* The files of every id but blob_id are as they were.
OthersUntouched(blob_id) ==
  /\ DOMAIN storage'.json = DOMAIN storage.json
  /\ DOMAIN storage'.data = DOMAIN storage.data
  /\ \A other \in DOMAIN storage.json \ {blob_id} :
       storage'.json[other] = storage.json[other]
  /\ \A other \in DOMAIN storage.data \ {blob_id} :
       storage'.data[other] = storage.data[other]

\* C25: a successful mutation changes only its own target.  set_name and
\* modify_blob change at most the name, add_reader, remove_reader and
\* set_readable_by at most readable_by, update_blob and replace_blob at most
\* the content, of the object named; every other file is as it was.
C25_Frame ==
  [][(last'.op \in OwnerOps \ {"delete_blob"} /\ last'.outcome = OK) =>
       LET blob_id == last'.id
           before == MetaOf(storage, blob_id)
           after == MetaOf(storage', blob_id)
       IN /\ OthersUntouched(blob_id)
          /\ last'.op \in {"set_name", "modify_blob"} =>
               /\ after = [before EXCEPT !.name = after.name]
               /\ storage'.data = storage.data
          /\ last'.op \in {"add_reader", "remove_reader", "set_readable_by"} =>
               /\ after = [before EXCEPT !.readable_by = after.readable_by]
               /\ storage'.data = storage.data
          /\ last'.op \in {"update_blob", "replace_blob"} =>
               storage'.json = storage.json]_vars

\* C25 witness: replace_blob has changed the content of one object while
\* the other object holds a different content.
C25_Witness ==
  /\ last.op = "replace_blob" /\ last.outcome = OK
  /\ \E other \in DOMAIN storage.data \ {last.id} :
       storage.data[other] # storage.data[last.id]

\* What update_blob and replace_blob end in and leave, in storage state fs.
update_blob_result(fs, user, blob_id, new_content) ==
  LET meta == read_meta(fs, blob_id)
      upd == update_content(fs, blob_id, new_content)
      outcome == IF IsNone(meta) THEN BlobNotFound
                 ELSE IF user # Get(meta).owner THEN Forbidden
                 ELSE IF ~upd.ok THEN BlobNotFound
                 ELSE OK
  IN [outcome |-> outcome, fs |-> IF outcome = OK THEN upd.fs ELSE fs]
replace_blob_result(fs, user, blob_id, new_content) ==
  LET acc == check_access(fs, user, blob_id, FALSE, TRUE)
      upd == update_content(fs, blob_id, new_content)
      outcome == IF acc.outcome # OK THEN acc.outcome
                 ELSE IF ~upd.ok THEN BlobNotFound
                 ELSE OK
  IN [outcome |-> outcome, fs |-> IF outcome = OK THEN upd.fs ELSE fs]

\* C26: update_blob and replace_blob are equivalent.  From every store
\* state, an id with one file only included, each ends as the other would
\* and leaves the store the other would leave.
C26_UpdateIsReplace ==
  [][/\ last'.op = "update_blob" =>
          [outcome |-> last'.outcome, fs |-> storage']
            = replace_blob_result(storage, last'.user, last'.id,
                                  Get(last'.content))
     /\ last'.op = "replace_blob" =>
          [outcome |-> last'.outcome, fs |-> storage']
            = update_blob_result(storage, last'.user, last'.id,
                                 Get(last'.content))]_vars

\* C26 witness: update_blob by the owner has ended in BlobNotFound on an id
\* that has its .json file and no .data file.
C26_Witness ==
  /\ last.op = "update_blob" /\ last.outcome = BlobNotFound
  /\ HasJson(storage, last.id) /\ ~HasData(storage, last.id)
  /\ MetaOf(storage, last.id).owner = last.user

\* The store fs with the name of blob_id replaced.
Renamed(fs, blob_id, new_name) ==
  [fs EXCEPT !.json[blob_id] =
     JsonDump([MetaOf(fs, blob_id) EXCEPT !.name = new_name])]

\* C27: modify_blob makes the existence and ownership checks in every case;
\* with a non-empty new_name it leaves what set_name leaves, the name
\* replaced; with new_name absent or empty it succeeds and changes nothing,
\* while set_name with the empty name stores the empty name.
C27_ModifyBlob ==
  [][/\ last'.op \in {"modify_blob", "set_name"} =>
          last'.outcome
            = check_access(storage, last'.user, last'.id, FALSE, TRUE).outcome
     /\ (last'.op = "modify_blob" /\ last'.outcome = OK) =>
          IF last'.name \in {None, Some("")}
            THEN storage' = storage
            ELSE storage' = Renamed(storage, last'.id, Get(last'.name))
     /\ (last'.op = "set_name" /\ last'.outcome = OK) =>
          storage' = Renamed(storage, last'.id, Get(last'.name))
     /\ last'.op \in {"modify_blob", "set_name"} /\ last'.outcome # OK =>
          storage' = storage]_vars

\* C27 witness: modify_blob with the empty name has succeeded and the
\* object still has its non-empty name.
C27_Witness ==
  /\ last.op = "modify_blob" /\ last.outcome = OK
  /\ last.name = Some("")
  /\ MetaOf(storage, last.id).name = "n1"

\* No element occurs twice in xs.
NoRepeat(xs) == \A i, j \in DOMAIN xs : i # j => xs[i] # xs[j]

\* C28: the stored reader list behaves as a set.  No stored readable_by
\* holds a user twice, and after a successful remove_reader of a target
\* other than the owner the target is no reader and is denied.
C28_ReadersAreSet ==
  /\ \A blob_id \in DOMAIN storage.json :
       NoRepeat(MetaOf(storage, blob_id).readable_by)
  /\ (last.op = "remove_reader" /\ last.outcome = OK
        /\ Get(last.target) # last.user) =>
       /\ Get(last.target) \notin ReadersOf(storage, last.id)
       /\ Denied(storage, Get(last.target), last.id)

\* C28 witness: remove_reader has taken a reader from one object while the
\* other object, created with a list naming one user twice, has both users
\* as readers.
C28_Witness ==
  /\ last.op = "remove_reader" /\ last.outcome = OK
  /\ Get(last.target) # last.user
  /\ \E other \in DOMAIN storage.json \ {last.id} :
       Len(MetaOf(storage, other).readable_by) = 2

\* C29: create_blob and set_readable_by leave the list the caller passed as
\* it was.
C29_CallerListUnchanged ==
  last.op \in {"create_blob", "set_readable_by"} => last.list_out = last.list

\* ============================================================ resolve_user
\* auth_mock.resolve_user, called with the values of the two headers.  A
\* string is the sequence of its characters.

\* Longest user name accepted (auth_mock.py, line 20).
MaxUserLen == 64
\* HTTP status codes of the two rejections, and of a normal return.
Unauthorized == 401
BadRequest == 400
Resolved == 200

\* k times the letter a.
Letters(k) == [i \in 1..k |-> "a"]

\* Header values: every string of up to three characters over a letter and
\* the space, and names around the length limit, bare or padded with spaces.
HeaderStrings ==
  UNION {[1..k -> {"a", " "}] : k \in 0..3}
    \cup {Letters(MaxUserLen), Letters(MaxUserLen + 1),
          <<" ">> \o Letters(MaxUserLen) \o <<" ">>,
          <<" ">> \o Letters(MaxUserLen + 1)}

\* A header is absent (None) or carries a string.
Headers == {None} \cup {Some(h) : h \in HeaderStrings}

\* str.strip(): the string without its leading and trailing spaces.
Strip(str) ==
  IF \A i \in DOMAIN str : str[i] = " " THEN <<>>
  ELSE LET inked == {i \in DOMAIN str : str[i] # " "}
           first == CHOOSE i \in inked : \A j \in inked : i <= j
           lastc == CHOOSE i \in inked : \A j \in inked : j <= i
       IN SubSeq(str, first, lastc)

\* Truth value of an Optional[str]: None and "" are false.
Truthy(h) == ~IsNone(h) /\ Get(h) # <<>>

\* auth_mock.resolve_user: [status, ret]
resolve_user(auth_token, x_user) ==
  LET user == Strip(IF Truthy(auth_token) THEN Get(auth_token)
                    ELSE IF Truthy(x_user) THEN Get(x_user)
                    ELSE <<>>)
  IN IF user = <<>> THEN [status |-> Unauthorized, ret |-> None]
     ELSE IF In(" ", user) \/ Len(user) > MaxUserLen
       THEN [status |-> BadRequest, ret |-> None]
     ELSE [status |-> Resolved, ret |-> Some(user)]

\* The record of a completed resolve_user call.
AuthCall(op, auth_token, x_user, status, ret) ==
  [op |-> op, auth_token |-> auth_token, x_user |-> x_user,
   status |-> status, ret |-> ret]

AuthInit ==
  /\ storage = [json |-> <<>>, data |-> <<>>]
  /\ issued = {}
  /\ last = AuthCall("idle", None, None, Resolved, None)
  /\ deleted = {}
  /\ granted = {}
  /\ revoked = {}

\* get_current_user: one request's headers are resolved.
get_current_user(auth_token, x_user) ==
  LET r == resolve_user(auth_token, x_user)
  IN /\ last.op = "idle"
     /\ last' = AuthCall("resolve_user", auth_token, x_user, r.status, r.ret)
     /\ UNCHANGED <<storage, issued, hist>>

\* The request is answered.
auth_respond ==
  /\ last.op # "idle"
  /\ last' = AuthCall("idle", None, None, Resolved, None)
  /\ UNCHANGED <<storage, issued, hist>>

AuthNext ==
  \/ \E auth_token \in Headers, x_user \in Headers :
       get_current_user(auth_token, x_user)
  \/ auth_respond

AuthSpec == AuthInit /\ [][AuthNext]_vars

\* The header carries a user: it is present and not blank.
Supplies(h) == ~IsNone(h) /\ Strip(Get(h)) # <<>>

\* The identity the two headers name, AuthToken first; <<>> when neither
\* header supplies one.
Named_user(auth_token, x_user) ==
  IF Supplies(auth_token) THEN Strip(Get(auth_token))
  ELSE IF Supplies(x_user) THEN Strip(Get(x_user))
  ELSE <<>>

\* C30: resolve_user returns the stripped AuthToken when that header
\* supplies a user, otherwise the stripped X-User when that one does; it
\* rejects with 401 only when neither supplies a user, with 400 when the
\* user has a space in it or more than 64 characters, and never returns an
\* empty identity.
C30_ResolveUser ==
  last.op = "resolve_user" =>
    LET user == Named_user(last.auth_token, last.x_user)
    IN /\ last.status = Unauthorized <=> user = <<>>
       /\ last.status = BadRequest <=>
            (user # <<>> /\ (In(" ", user) \/ Len(user) > MaxUserLen))
       /\ last.status = Resolved =>
            (last.ret = Some(user) /\ user # <<>>)

\* ===================================================== concurrent requests
\* Two requests served at the same time: the endpoints declared with `def`
\* run on worker threads, and nothing in the service or the store takes a
\* lock.
\* A step is one access to the directory: the read of the .json file in
\* _check_access, the os.path.exists tests and the write of update_meta,
\* the tests and the two removals of delete, the two writes of create.
\* `last` maps each thread to its request: the call, where it stands (pc),
\* the metadata it holds, and its outcome once done.

Threads == {"t1", "t2"}

\* The object both requests work on, stored before they start.
StartMeta == BlobMeta("b1", "n1", "alice", <<"alice", "bob">>, EmptyDict)
StartDir == create([json |-> <<>>, data |-> <<>>], StartMeta, "hello")

\* A request: arg is the new name, the target user or the new list.
Request(op, user, id, arg) ==
  [op |-> op, user |-> user, id |-> id, arg |-> arg, pc |-> "start",
   meta |-> None, outcome |-> "running", ret |-> None]

\* The requests a thread may serve.
Requests ==
  {Request("set_name", "alice", "b1", "n2"),
   Request("add_reader", "alice", "b1", "carol"),
   Request("add_reader", "alice", "b1", "dave"),
   Request("remove_reader", "alice", "b1", "bob"),
   Request("set_readable_by", "alice", "b1", <<"carol">>),
   Request("delete_blob", "alice", "b1", None),
   Request("get_meta", "alice", "b1", None),
   Request("list_blobs", "alice", "", None),
   Request("create_blob", "alice", "", "n1")}

\* The methods that read the metadata, change it and write it back.
MetaOps == {"set_name", "add_reader", "remove_reader", "set_readable_by"}

\* The methods whose endpoints are declared `async def`: they run on the
\* event loop, one at a time, and call the service without awaiting, so no
\* two of them overlap; each overlaps the requests of the worker threads.
LoopOps == {"create_blob", "remove_reader"}

ConcInit ==
  /\ storage = StartDir
  /\ issued = {"b1"}
  /\ last \in {f \in [Threads -> Requests] :
                 \E t \in Threads : f[t].op \notin LoopOps}
  /\ deleted = {}
  /\ granted = {}
  /\ revoked = {}

\* The request of thread t ends with outcome and return value.
Finish(t, outcome, ret) ==
  last' = [last EXCEPT ![t].pc = "done", ![t].outcome = outcome, ![t].ret = ret]

\* The metadata a MetaOps request writes, having read meta; None when it
\* writes nothing.  set_readable_by: for every order list(set()) may give.
Written(req, meta) ==
  CASE req.op = "set_name" -> {Some([meta EXCEPT !.name = req.arg])}
    [] req.op = "add_reader" -> {add_reader_meta(meta, req.arg)}
    [] req.op = "remove_reader" -> {remove_reader_meta(meta, req.arg)}
    [] req.op = "set_readable_by" ->
         {Some([meta EXCEPT !.readable_by = readers]) :
            readers \in ListOfSet(inject_owner(req.user, req.arg))}

\* _check_access(owner_only=True) of a MetaOps request or of delete_blob.
c_check_access(t) ==
  LET req == last[t]
      acc == check_access(storage, req.user, req.id, FALSE, TRUE)
  IN /\ req.pc = "start" /\ req.op \in MetaOps \cup {"delete_blob"}
     /\ IF acc.outcome # OK THEN Finish(t, acc.outcome, None)
        ELSE IF req.op = "delete_blob"
          THEN last' = [last EXCEPT ![t].pc = "delete_check"]
        ELSE \E w \in Written(req, Get(acc.meta)) :
               IF IsNone(w) THEN Finish(t, OK, None)
               ELSE last' = [last EXCEPT ![t].pc = "update_check",
                                         ![t].meta = w]
     /\ UNCHANGED <<storage, issued, hist>>

\* update_meta, line 87: the test that the .json file exists.  The service
\* does not look at the value update_meta returns.
c_update_exists(t) ==
  LET req == last[t]
  IN /\ req.pc = "update_check"
     /\ IF Get(req.meta).id \in DOMAIN storage.json
          THEN last' = [last EXCEPT ![t].pc = "update_write"]
          ELSE Finish(t, OK, None)
     /\ UNCHANGED <<storage, issued, hist>>

\* update_meta, lines 89-90: the .json file is opened for writing (created
\* when it is not there) and the metadata dumped.
c_update_write(t) ==
  LET req == last[t]
      meta == Get(req.meta)
  IN /\ req.pc = "update_write"
     /\ storage' = [storage EXCEPT
                      !.json = (meta.id :> JsonDump(meta)) @@ storage.json]
     /\ Finish(t, OK, None)
     /\ UNCHANGED <<issued, hist>>

\* delete, line 113: the test that both files exist.
c_delete_exists(t) ==
  LET req == last[t]
  IN /\ req.pc = "delete_check"
     /\ IF exists(storage, req.id)
          THEN last' = [last EXCEPT ![t].pc = "remove_data"]
          ELSE Finish(t, BlobNotFound, None)
     /\ UNCHANGED <<storage, issued, hist>>

\* delete, line 115: os.remove of the .data file.
c_remove_data(t) ==
  LET req == last[t]
  IN /\ req.pc = "remove_data"
     /\ IF req.id \in DOMAIN storage.data
          THEN /\ storage' = [storage EXCEPT !.data =
                                [i \in DOMAIN storage.data \ {req.id} |->
                                   storage.data[i]]]
               /\ last' = [last EXCEPT ![t].pc = "remove_meta"]
          ELSE /\ Finish(t, "FileNotFoundError", None)
               /\ UNCHANGED storage
     /\ UNCHANGED <<issued, hist>>

\* delete, line 116: os.remove of the .json file.
c_remove_meta(t) ==
  LET req == last[t]
  IN /\ req.pc = "remove_meta"
     /\ IF req.id \in DOMAIN storage.json
          THEN /\ storage' = [storage EXCEPT !.json =
                                [i \in DOMAIN storage.json \ {req.id} |->
                                   storage.json[i]]]
               /\ Finish(t, OK, None)
          ELSE /\ Finish(t, "FileNotFoundError", None)
               /\ UNCHANGED storage
     /\ UNCHANGED <<issued, hist>>

\* get_meta: the read of the .json file and the access test.
c_get_meta(t) ==
  LET req == last[t]
      r == get_meta_result(storage, req.user, req.id)
  IN /\ req.pc = "start" /\ req.op = "get_meta"
     /\ Finish(t, r.outcome, r.ret)
     /\ UNCHANGED <<storage, issued, hist>>

\* list_blobs: the listing of the directory and the reads of the .json
\* files, taken together.
c_list_blobs(t) ==
  LET req == last[t]
  IN /\ req.pc = "start" /\ req.op = "list_blobs"
     /\ \E ids \in list_ids(storage) :
          Finish(t, OK, Some(list_result(storage, req.user, ids)))
     /\ UNCHANGED <<storage, issued, hist>>

\* create_blob, persistence lines 39-40: the .data file is written.
c_create_data(t) ==
  LET req == last[t]
  IN /\ req.pc = "start" /\ req.op = "create_blob"
     /\ \E blob_id \in Ids \ issued :
          /\ storage' = [storage EXCEPT !.data = (blob_id :> "hello") @@ storage.data]
          /\ issued' = issued \cup {blob_id}
          /\ last' = [last EXCEPT
                        ![t].pc = "create_meta", ![t].id = blob_id,
                        ![t].meta = Some(BlobMeta(blob_id, req.arg, req.user,
                                                  <<req.user>>, EmptyDict))]
     /\ UNCHANGED hist

\* create_blob, persistence lines 41-42: the .json file is written.
c_create_meta(t) ==
  LET req == last[t]
      meta == Get(req.meta)
  IN /\ req.pc = "create_meta"
     /\ storage' = [storage EXCEPT
                      !.json = (meta.id :> JsonDump(meta)) @@ storage.json]
     /\ Finish(t, OK, Some(meta.id))
     /\ UNCHANGED <<issued, hist>>

ConcNext ==
  \/ \E t \in Threads : c_check_access(t)
  \/ \E t \in Threads : c_update_exists(t)
  \/ \E t \in Threads : c_update_write(t)
  \/ \E t \in Threads : c_delete_exists(t)
  \/ \E t \in Threads : c_remove_data(t)
  \/ \E t \in Threads : c_remove_meta(t)
  \/ \E t \in Threads : c_get_meta(t)
  \/ \E t \in Threads : c_list_blobs(t)
  \/ \E t \in Threads : c_create_data(t)
  \/ \E t \in Threads : c_create_meta(t)

ConcSpec == ConcInit /\ [][ConcNext]_vars

\* The metadata with its reader list as a set.
AsSet(meta) == [meta EXCEPT !.readable_by = ToSet(@)]

\* The metadata a MetaOps request leaves when it runs alone on meta.
Alone(req, meta) ==
  LET w == CHOOSE x \in Written(req, meta) : TRUE
  IN IF IsNone(w) THEN meta ELSE Get(w)

\* Both requests have ended.
AllDone == \A t \in Threads : last[t].pc = "done"

\* C21: no lost update.  When two requests of MetaOps by the owner on the
\* same object have both ended, the stored metadata is what the two leave
\* when one runs after the other, in one of the two orders.
C21_NoLostUpdate ==
  (AllDone /\ \A t \in Threads : last[t].op \in MetaOps) =>
    AsSet(MetaOf(storage, "b1"))
      \in {AsSet(Alone(last["t2"], Alone(last["t1"], StartMeta))),
           AsSet(Alone(last["t1"], Alone(last["t2"], StartMeta)))}

\* Thread t ends its request in this step.
Ends(t) == last[t].pc # "done" /\ last'[t].pc = "done"

\* C22: no partial state is observable.  No get_meta, set_name or
\* add_reader ends in success on an id that has one file only, list_blobs
\* lists no such id, and once delete_blob has succeeded and the other
\* request has ended the id has no .json file.
C22_NoPartialState ==
  [][/\ \A t \in Threads :
          (Ends(t) /\ last'[t].outcome = OK
             /\ last[t].op \in {"get_meta", "set_name", "add_reader"}) =>
            ~Half(storage, last[t].id)
     /\ \A t \in Threads :
          (Ends(t) /\ last[t].op = "list_blobs") =>
            \A i \in DOMAIN Get(last'[t].ret) :
              ~Half(storage, Get(last'[t].ret)[i].id)
     /\ \A t \in Threads :
          (last'[t].op = "delete_blob" /\ last'[t].outcome = OK
             /\ \A u \in Threads : last'[u].pc = "done") =>
            ~HasJson(storage', last'[t].id)]_vars

====
